---- MODULE Spec2Model ----
(***************************************************************************)
(* A model of the Atlas crawlers.                                          *)
(*                                                                         *)
(*   - crawl_for_pdfs (pdf_crawler.py): the breadth-first traversal with   *)
(*     its visited set, frontier and list of PDF links.                    *)
(*   - the junk-page pattern of pdf_crawler.py, as a matcher over          *)
(*     character sequences.                                                *)
(*   - fetch_listing_pages / extract_report_links / main (web_scraper.py): *)
(*     the paginated listing loop.                                         *)
(*   - _find_label_value (web_scraper.py): the label lookup over the       *)
(*     stripped strings of a document.                                     *)
(*   - parse_report and the report loop of main (web_scraper.py), with     *)
(*     the pages and the context it opens.                                 *)
(*   - save_to_excel and save_to_sqlite (web_scraper.py): the two record   *)
(*     sinks over several runs.                                            *)
(*   - several calls of crawl_for_pdfs, as run_all_tasks (main.py) makes   *)
(*     them, each with its own locals.                                     *)
(*   - get_report_html_alternative (web_scraper.py): the retry loop.       *)
(*   - sanitize_filename and the destination download_pdf computes         *)
(*     (pdf_crawler.py).                                                   *)
(*                                                                         *)
(* Strings are sequences of one-character strings, so that lower-casing,   *)
(* substring search, prefix tests and the pattern are computed the way the *)
(* code computes them.                                                     *)
(***************************************************************************)
EXTENDS Integers, Sequences, FiniteSets, TLC

VARIABLES
    \* ---- crawl_for_pdfs (pdf_crawler.py) ----
    base_url,      \* the seed, parameter base_url
    max_depth,     \* parameter max_depth
    visited,       \* set of URLs                      (line 88)
    to_visit,      \* FIFO list of (url, depth)         (line 89)
    pdf_links,     \* list of (full_url, link)          (line 90)
    cpc,           \* position of crawl_for_pdfs: "idle", "crawl", "download", "done"
    fetched,       \* log of the requests.get calls of line 99, with what each returned
    downloaded,    \* log of the download_pdf calls of line 140
    ctrace,        \* the downloads and the sleeps of crawl_for_pdfs, in the order made
    \* ---- the junk-page pattern applied to one path (pdf_crawler.py line 128) ----
    junk_path,     \* parsed.path
    junk_result,   \* "none" before the call, then "match" or "no match"
    \* ---- _find_label_value (web_scraper.py) ----
    stripped,      \* list(soup.stripped_strings)         (line 137)
    label_base,    \* parameter label_base
    label_done,    \* whether the call has returned
    label_result,  \* what the call returned
    \* ---- fetch_listing_pages and main (web_scraper.py) ----
    lpc,               \* position of main: "idle", "start", "listing", "listed", "raised", "entries",
                       \* "reports", "processed", "saved"
    lsession,          \* the page and context of fetch_listing_pages: "none", "open", "closed"
    current_page,      \* line 307
    all_listing_htmls, \* line 290
    loaded,            \* log of the get_html calls of line 314, with what each returned
    report_entries,    \* line 341
    lcookies,          \* the cookies of the context of fetch_listing_pages
    strace,            \* the page loads and the sleeps of main, in the order made
    \* ---- the report loop of main (web_scraper.py) ----
    rcontext,          \* the context of lines 348-383: "none", "open", "closed"
    rpages,            \* the entries (by index) whose page is open
    entry_idx,         \* index in report_entries of the entry the for loop of line 362 is at
    reports_data,      \* line 361
    rcookies,          \* the cookies of the context of lines 348-383
    report_loads,      \* log of the iterations of the for loop of line 362
    \* ---- the record sinks (web_scraper.py) ----
    xlsx,              \* reports.xlsx: whether the file exists, and its rows below the header
    db,                \* the rows of table reports of reports.db
    saves,             \* the number of runs of lines 389-390 so far
    \* ---- several calls of crawl_for_pdfs (main.py lines 27-28) ----
    runs,              \* for each call its parameters, locals, position and logs
    \* ---- extract_report_links applied to one page (web_scraper.py) ----
    ex_body,           \* the <a> and <time> elements of the page, in document order
    ex_result,         \* whether the call has returned, and the reports it returned
    \* ---- get_report_html_alternative (web_scraper.py) ----
    rt_retries,        \* parameter retries
    rt_log,            \* the attempts made so far, with what each came to
    rt_open,           \* the attempts whose page is open
    rt_result,         \* whether the call has returned, and the html it returned
    \* ---- the destination download_pdf computes (pdf_crawler.py) ----
    dl_heading,        \* the text of the nearest heading of the link, or None
    dl_text,           \* the text of the link
    dl_url,            \* parameter pdf_url
    dl_path            \* whether line 65 was reached, and section, subfolder and pdf_filename

crawlVars == <<base_url, max_depth, visited, to_visit, pdf_links, cpc, fetched, downloaded, ctrace>>
junkVars == <<junk_path, junk_result>>
labelVars == <<stripped, label_base, label_done, label_result>>
listingVars == <<lpc, lsession, current_page, all_listing_htmls, loaded, report_entries,
                 lcookies, strace>>
reportVars == <<rcontext, rpages, entry_idx, reports_data, rcookies, report_loads>>
sinkVars == <<xlsx, db, saves>>
extractVars == <<ex_body, ex_result>>
retryVars == <<rt_retries, rt_log, rt_open, rt_result>>
pathVars == <<dl_heading, dl_text, dl_url, dl_path>>
callVars == <<extractVars, retryVars, pathVars>>

vars == <<crawlVars, junkVars, labelVars, listingVars, reportVars, sinkVars, runs, callVars>>

\* what each part of the model leaves alone
notCrawl == <<junkVars, labelVars, listingVars, reportVars, sinkVars, runs, callVars>>
notJunk == <<crawlVars, labelVars, listingVars, reportVars, sinkVars, runs, callVars>>
notLabel == <<crawlVars, junkVars, listingVars, reportVars, sinkVars, runs, callVars>>
notListing == <<crawlVars, junkVars, labelVars, reportVars, sinkVars, runs, callVars>>
notScraper == <<crawlVars, junkVars, labelVars, runs, callVars>>
notSinks == <<crawlVars, junkVars, labelVars, listingVars, reportVars, runs, callVars>>
notCalls == <<crawlVars, junkVars, labelVars, listingVars, reportVars, sinkVars, runs>>
notRuns == <<crawlVars, junkVars, labelVars, listingVars, reportVars, sinkVars, callVars>>

\* extract_report_links is not being applied
IdleExtract == ex_body = <<>> /\ ex_result = [done |-> FALSE, reports |-> <<>>]

\* get_report_html_alternative is not being applied
IdleRetry ==
    /\ rt_retries = 0
    /\ rt_log = <<>>
    /\ rt_open = {}
    /\ rt_result = [done |-> FALSE, html |-> [length |-> 0]]

\* download_pdf is not being applied
IdlePath ==
    /\ dl_heading = [found |-> FALSE, value |-> <<>>]
    /\ dl_text = <<>>
    /\ dl_url = <<>>
    /\ dl_path = [done |-> FALSE, section |-> <<>>, subfolder |-> <<>>, pdf_filename |-> <<>>]

\* none of the functions followed on their own is being applied
IdleCalls == IdleExtract /\ IdleRetry /\ IdlePath

-----------------------------------------------------------------------------
(* Character sequences *)

UpperChars == <<"A","B","C","D","E","F","G","H","I","J","K","L","M",
                "N","O","P","Q","R","S","T","U","V","W","X","Y","Z">>
LowerChars == <<"a","b","c","d","e","f","g","h","i","j","k","l","m",
                "n","o","p","q","r","s","t","u","v","w","x","y","z">>

UpperSet == {UpperChars[i] : i \in DOMAIN UpperChars}

LowerOf == [c \in UpperSet |-> LowerChars[CHOOSE i \in DOMAIN UpperChars : UpperChars[i] = c]]

\* str.lower() on one character of the modelled alphabet
LowerChar(c) == IF c \in UpperSet THEN LowerOf[c] ELSE c

\* str.lower()
Lower(s) == [i \in 1..Len(s) |-> LowerChar(s[i])]

\* s.startswith(p)
StartsWith(s, p) == Len(p) <= Len(s) /\ SubSeq(s, 1, Len(p)) = p

\* needle in hay
Contains(hay, needle) ==
    \E i \in 1..(Len(hay) - Len(needle) + 1) : SubSeq(hay, i, i + Len(needle) - 1) = needle

\* s.split(sep) for a separator of one character
RECURSIVE SplitOn(_, _)
SplitOn(s, sep) ==
    IF \A i \in DOMAIN s : s[i] # sep THEN <<s>>
    ELSE LET i == CHOOSE k \in DOMAIN s : s[k] = sep /\ \A m \in 1..(k - 1) : s[m] # sep
         IN  <<SubSeq(s, 1, i - 1)>> \o SplitOn(SubSeq(s, i + 1, Len(s)), sep)

Digits == {"0","1","2","3","4","5","6","7","8","9"}

\* the class [\da-f] of the junk pattern
HexClass == Digits \cup {"a","b","c","d","e","f"}

AllIn(s, class) == \A i \in 1..Len(s) : s[i] \in class

-----------------------------------------------------------------------------
(* URLs.  A URL is kept in the parts urlparse gives it: netloc, path and   *)
(* query; the scheme is always https.  No modelled path or query holds a   *)
(* "?" or "#", so unparsing and parsing a URL gives its parts back.        *)

SchemePrefix == <<"h","t","t","p","s",":","/","/">>

Url(netloc, path, query) == [netloc |-> netloc, path |-> path, query |-> query]

\* the URL as the string the code holds
UrlString(u) ==
    SchemePrefix \o u.netloc \o u.path
        \o (IF u.query = <<>> THEN <<>> ELSE <<"?">> \o u.query)

ExampleOrg == <<"e","x","a","m","p","l","e",".","o","r","g">>
OtherOrg   == <<"o","t","h","e","r",".","o","r","g">>

\* an href with no authority: an absolute-path reference ("/docs")
NoNetloc == <<>>

PathRoot     == <<"/">>
PathDocs     == <<"/","d","o","c","s">>
PathAbout    == <<"/","a","b","o","u","t",".","h","t","m","l">>
PathReport   == <<"/","d","o","c","s","/","r","e","p","o","r","t",".","p","d","f">>
PathReportUc == <<"/","d","o","c","s","/","R","e","p","o","r","t",".","P","D","F">>
PathX        == <<"/","x",".","p","d","f">>
PathJunk     == <<"/","1","2",".","h","t","m","l">>
QueryNone    == <<>>
QueryV       == <<"v","=","1">>
QueryPdf     == <<"f","=","a",".","p","d","f">>

\* urljoin(final_url, href) for an absolute href and for an absolute-path reference
urljoin(final_url, href) ==
    IF href.netloc = NoNetloc
    THEN Url(final_url.netloc, href.path, href.query)
    ELSE href

-----------------------------------------------------------------------------
(* The URL filter of crawl_for_pdfs *)

DotHtml == <<".","h","t","m","l">>
DotPdf  == <<".","p","d","f">>

\* JunkPattern without the "$": a match of a prefix of the path is enough
JunkPatternPrefix(path) ==
    /\ Len(path) >= 1
    /\ path[1] = "/"
    /\ \E i \in 2..Len(path) :
         /\ AllIn(SubSeq(path, 2, i), Digits)
         /\ \/ StartsWith(SubSeq(path, i + 1, Len(path)), DotHtml)
            \/ \E j \in (i + 2)..Len(path) :
                 /\ path[i + 1] = "."
                 /\ AllIn(SubSeq(path, i + 2, j), HexClass)
                 /\ StartsWith(SubSeq(path, j + 1, Len(path)), DotHtml)

\* re.match(r'^/\d+(\.[\da-f]+)?\.html$', parsed.path): "/", then one or more
\* digits, then optionally "." and one or more characters of [\da-f], then
\* ".html" and the end of the path.  (Modelled paths hold ASCII only and no
\* line break: urlsplit removes "\n" from a URL before the pattern sees it.)
JunkPattern(path) ==
    /\ Len(path) >= 1
    /\ path[1] = "/"
    /\ \E i \in 2..Len(path) :
         /\ AllIn(SubSeq(path, 2, i), Digits)
         /\ \/ SubSeq(path, i + 1, Len(path)) = DotHtml
            \/ \E j \in (i + 2)..Len(path) :
                 /\ path[i + 1] = "."
                 /\ AllIn(SubSeq(path, i + 2, j), HexClass)
                 /\ SubSeq(path, j + 1, Len(path)) = DotHtml

\* SameDomain with the test dropped
SameDomainAny(full_url, base) == TRUE

\* urlparse(full_url).netloc != urlparse(base_url).netloc, negated
SameDomain(full_url, base) == full_url.netloc = base.netloc

IsJunkPage(full_url) == JunkPattern(full_url.path)

\* IsTargetDocument that looks at the end of the URL only
IsTargetDocumentSuffix(full_url) ==
    LET str == Lower(UrlString(full_url))
    IN  Len(str) >= Len(DotPdf) /\ SubSeq(str, Len(str) - Len(DotPdf) + 1, Len(str)) = DotPdf

\* ".pdf" in full_url.lower()
IsTargetDocument(full_url) == Contains(Lower(UrlString(full_url)), DotPdf)

\* LinkFate with the depth test off by one: a page at max_depth still enqueues
LinkFateDepthInclusive(full_url, base, depth, maxd, seen) ==
    IF ~SameDomain(full_url, base) THEN "skip"
    ELSE IF IsJunkPage(full_url) THEN "skip"
    ELSE IF IsTargetDocument(full_url) THEN "pdf"
    ELSE IF depth <= maxd /\ full_url \notin seen THEN "enqueue"
    ELSE "none"

\* LinkFate with the depth test off by one the other way
LinkFateDepthStrict(full_url, base, depth, maxd, seen) ==
    IF ~SameDomain(full_url, base) THEN "skip"
    ELSE IF IsJunkPage(full_url) THEN "skip"
    ELSE IF IsTargetDocument(full_url) THEN "pdf"
    ELSE IF depth + 1 < maxd /\ full_url \notin seen THEN "enqueue"
    ELSE "none"

\* LinkFate with the document test ahead of the junk test
LinkFatePdfFirst(full_url, base, depth, maxd, seen) ==
    IF ~SameDomain(full_url, base) THEN "skip"
    ELSE IF IsTargetDocument(full_url) THEN "pdf"
    ELSE IF IsJunkPage(full_url) THEN "skip"
    ELSE IF depth < maxd /\ full_url \notin seen THEN "enqueue"
    ELSE "none"

\* LinkFate without the test against visited
LinkFateNoSeenTest(full_url, base, depth, maxd, seen) ==
    IF ~SameDomain(full_url, base) THEN "skip"
    ELSE IF IsJunkPage(full_url) THEN "skip"
    ELSE IF IsTargetDocument(full_url) THEN "pdf"
    ELSE IF depth < maxd THEN "enqueue"
    ELSE "none"

\* What the body of the for loop does with one anchor: "skip" (continue),
\* "pdf" (append to pdf_links), "enqueue" (append to to_visit) or "none".
LinkFate(full_url, base, depth, maxd, seen) ==
    IF ~SameDomain(full_url, base) THEN "skip"
    ELSE IF IsJunkPage(full_url) THEN "skip"
    ELSE IF IsTargetDocument(full_url) THEN "pdf"
    ELSE IF depth < maxd /\ full_url \notin seen THEN "enqueue"
    ELSE "none"

-----------------------------------------------------------------------------
(* The pages the modelled site can serve *)

\* hrefs that occur in anchors
HrefDocs      == Url(NoNetloc, PathDocs, QueryNone)
HrefAbout     == Url(ExampleOrg, PathAbout, QueryNone)
HrefReport    == Url(NoNetloc, PathReport, QueryNone)
HrefReportUc  == Url(NoNetloc, PathReportUc, QueryV)
HrefJunkPdf   == Url(NoNetloc, PathJunk, QueryPdf)
HrefOtherPdf  == Url(OtherOrg, PathX, QueryNone)

Hrefs == {HrefDocs, HrefAbout, HrefReport, HrefReportUc, HrefJunkPdf, HrefOtherPdf}

\* the anchors (with href) of a page, in document order: none, one or two
LinkLists == {<<>>} \cup {<<a>> : a \in Hrefs} \cup {<<a, b>> : a \in Hrefs, b \in Hrefs}

SeedUrl == Url(ExampleOrg, PathRoot, QueryNone)

\* the anchors of a page served after a redirect: none or one, or the two page links
RedirectedLinkLists == {<<>>} \cup {<<a>> : a \in Hrefs} \cup {<<HrefDocs, HrefAbout>>}

\* What a successful GET of u returns: response.url (u itself, or the same path
\* on another host after a redirect) and the anchors of the page.
HtmlResponses(u) ==
    {[final_url |-> u, links |-> l] : l \in LinkLists}
        \cup {[final_url |-> Url(OtherOrg, u.path, u.query), links |-> l] : l \in RedirectedLinkLists}

\* a bound on the max_depth values tried
MaxMaxDepth == 2

-----------------------------------------------------------------------------
(* crawl_for_pdfs *)

\* soup.find_all("a", href=True) with each href resolved against final_url
Anchors(final_url, links) ==
    [i \in 1..Len(links) |-> [full_url |-> urljoin(final_url, links[i]), idx |-> i]]

\* the entries the for loop appends to to_visit for one page
NewFrontier(anchors, base, depth, maxd, seen) ==
    LET Keep(a) == LinkFate(a.full_url, base, depth, maxd, seen) = "enqueue"
        kept == SelectSeq(anchors, Keep)
    IN  [k \in 1..Len(kept) |-> [url |-> kept[k].full_url, depth |-> depth + 1]]

\* the entries the for loop appends to pdf_links for one page
NewPdfLinks(anchors, page, base, depth, maxd, seen) ==
    LET Keep(a) == LinkFate(a.full_url, base, depth, maxd, seen) = "pdf"
        kept == SelectSeq(anchors, Keep)
    IN  [k \in 1..Len(kept) |->
            [url |-> kept[k].full_url, link |-> [page |-> page, idx |-> kept[k].idx]]]

\* Dequeue that reads the head and leaves it in the list
DequeuePeek(queue) == queue

\* line 93: to_visit.pop(0) leaves the rest of the list
Dequeue(queue) == Tail(queue)

\* Enqueue that puts the new entries in front of the waiting ones
EnqueueFront(queue, entries) == entries \o queue

\* line 134: to_visit.append adds at the end of the list
Enqueue(queue, entries) == queue \o entries

\* AlreadyVisited with the test dropped
AlreadyVisitedNever(url, seen) == FALSE

\* line 94: current_url in visited
AlreadyVisited(url, seen) == url \in seen

\* MarkVisited that forgets the URL
MarkVisitedNot(url, seen) == seen

\* line 96: visited.add(current_url), before the request is made
MarkVisited(url, seen) == seen \cup {url}

\* the crawl followed on its own is not running
IdleLocals ==
    /\ base_url = SeedUrl
    /\ max_depth = 0
    /\ visited = {}
    /\ to_visit = <<>>
    /\ pdf_links = <<>>
    /\ cpc = "idle"
    /\ fetched = <<>>
    /\ downloaded = <<>>
    /\ ctrace = <<>>

\* no call of crawl_for_pdfs is running
IdleCrawl ==
    /\ runs = <<>>
    /\ IdleLocals

\* no path is being matched
IdleJunk == junk_path = <<>> /\ junk_result = "none"

\* no label lookup is running
IdleLabel ==
    /\ stripped = <<>>
    /\ label_base = <<>>
    /\ label_done = FALSE
    /\ label_result = [found |-> FALSE, value |-> <<>>]

\* the report loop has not started
IdleReports ==
    /\ rcontext = "none"
    /\ rpages = {}
    /\ entry_idx = 1
    /\ reports_data = <<>>
    /\ rcookies = {}
    /\ report_loads = <<>>

\* neither sink exists yet
IdleSinks ==
    /\ xlsx = [exists |-> FALSE, rows |-> <<>>]
    /\ db = <<>>
    /\ saves = 0

\* the scraper is not running
IdleListing ==
    /\ IdleReports
    /\ IdleSinks
    /\ lpc = "idle"
    /\ lsession = "none"
    /\ current_page = 1
    /\ all_listing_htmls = <<>>
    /\ loaded = <<>>
    /\ report_entries = <<>>
    /\ lcookies = {}
    /\ strace = <<>>

InitCrawl ==
    /\ IdleCalls
    /\ runs = <<>>
    /\ IdleJunk
    /\ IdleLabel
    /\ IdleListing
    /\ base_url = SeedUrl
    /\ max_depth \in 0..MaxMaxDepth
    /\ visited = {}
    /\ to_visit = <<[url |-> base_url, depth |-> 0]>>
    /\ pdf_links = <<>>
    /\ cpc = "crawl"
    /\ fetched = <<>>
    /\ downloaded = <<>>
    /\ ctrace = <<>>

\* lines 93-95: the dequeued URL is already visited
SkipVisited ==
    /\ cpc = "crawl"
    /\ to_visit # <<>>
    /\ AlreadyVisited(Head(to_visit).url, visited)
    /\ to_visit' = Dequeue(to_visit)
    /\ UNCHANGED <<base_url, max_depth, visited, pdf_links, cpc, fetched, downloaded, ctrace, notCrawl>>

\* lines 93-112: the request raises, or raise_for_status does (kind "error"),
\* or the content type is not HTML (kind "nonhtml")
FetchAbandoned ==
    /\ cpc = "crawl"
    /\ to_visit # <<>>
    /\ ~AlreadyVisited(Head(to_visit).url, visited)
    /\ \E kind \in {"error", "nonhtml"} :
         fetched' = Append(fetched,
                       [url |-> Head(to_visit).url, depth |-> Head(to_visit).depth,
                        kind |-> kind, final_url |-> Head(to_visit).url, links |-> <<>>])
    /\ visited' = MarkVisited(Head(to_visit).url, visited)
    /\ to_visit' = Dequeue(to_visit)
    /\ UNCHANGED <<base_url, max_depth, pdf_links, cpc, downloaded, ctrace, notCrawl>>

\* lines 93-134: the page is fetched and parsed, and its anchors are processed
FetchHtml ==
    /\ cpc = "crawl"
    /\ to_visit # <<>>
    /\ ~AlreadyVisited(Head(to_visit).url, visited)
    /\ \E response \in HtmlResponses(Head(to_visit).url) :
         LET current_url == Head(to_visit).url
             depth == Head(to_visit).depth
             final_url == response.final_url
             links == response.links
             seen == MarkVisited(current_url, visited)
             anchors == Anchors(final_url, links)
         IN  /\ visited' = seen
             /\ to_visit' = Enqueue(Dequeue(to_visit),
                                    NewFrontier(anchors, base_url, depth, max_depth, seen))
             /\ pdf_links' = pdf_links
                               \o NewPdfLinks(anchors, current_url, base_url, depth, max_depth, seen)
             /\ fetched' = Append(fetched,
                              [url |-> current_url, depth |-> depth, kind |-> "html",
                               final_url |-> final_url, links |-> links])
    /\ UNCHANGED <<base_url, max_depth, cpc, downloaded, ctrace, notCrawl>>

\* line 92 and line 136: the frontier is empty, the loop ends
LoopExit ==
    /\ cpc = "crawl"
    /\ to_visit = <<>>
    /\ cpc' = IF pdf_links = <<>> THEN "done" ELSE "download"
    /\ UNCHANGED <<base_url, max_depth, visited, to_visit, pdf_links, fetched, downloaded, ctrace,
                   notCrawl>>

\* lines 139-140: download_pdf for the next entry of pdf_links
Download ==
    /\ cpc = "download"
    /\ Len(downloaded) < Len(pdf_links)
    /\ downloaded' = Append(downloaded, pdf_links[Len(downloaded) + 1].url)
    /\ ctrace' = Append(ctrace, "download")
    /\ cpc' = IF Len(downloaded) + 1 = Len(pdf_links) THEN "done" ELSE "download"
    /\ UNCHANGED <<base_url, max_depth, visited, to_visit, pdf_links, fetched, notCrawl>>

NextCrawl == SkipVisited \/ FetchAbandoned \/ FetchHtml \/ LoopExit \/ Download

SpecCrawl == InitCrawl /\ [][NextCrawl]_vars

-----------------------------------------------------------------------------
(* The junk-page pattern on its own: one path, one match *)

\* a bound on the number of pieces a tried path is made of
MaxPieces == 5

\* the pieces tried paths are made of: a slash, a digit, a lower-case and an
\* upper-case hexadecimal letter, another letter, a dot, and ".html"
Pieces == {<<"/">>, <<"1">>, <<"a">>, <<"A">>, <<"x">>, <<".">>, DotHtml}

RECURSIVE Flatten(_)
Flatten(pieces) == IF pieces = <<>> THEN <<>> ELSE Head(pieces) \o Flatten(Tail(pieces))

PathJunkHex  == <<"/","1","2","3",".","a","b","c","d","e","f",".","h","t","m","l">>
PathMultiSeg == <<"/","1","2","/","r","e","p","o","r","t",".","h","t","m","l">>

JunkInputs ==
    {Flatten(p) : p \in UNION {[1..n -> Pieces] : n \in 0..MaxPieces}}
        \cup {PathJunkHex, PathAbout, PathMultiSeg, PathJunk, PathDocs, PathReport}

InitJunk ==
    /\ IdleCalls
    /\ IdleCrawl
    /\ IdleLabel
    /\ IdleListing
    /\ junk_path \in JunkInputs
    /\ junk_result = "none"

\* line 128: re.match(pattern, parsed.path)
MatchJunk ==
    /\ junk_result = "none"
    /\ junk_path \in JunkInputs
    /\ junk_result' = IF JunkPattern(junk_path) THEN "match" ELSE "no match"
    /\ UNCHANGED <<junk_path, notJunk>>

NextJunk == MatchJunk

SpecJunk == InitJunk /\ [][NextJunk]_vars

-----------------------------------------------------------------------------
(* _find_label_value *)

Whitespace == {" "}

\* str.strip()
RECURSIVE Strip(_)
Strip(s) ==
    IF s = <<>> THEN s
    ELSE IF Head(s) \in Whitespace THEN Strip(Tail(s))
    ELSE IF s[Len(s)] \in Whitespace THEN Strip(SubSeq(s, 1, Len(s) - 1))
    ELSE s

Colon == <<":">>

\* the return values: None, or a string
None == [found |-> FALSE, value |-> <<>>]
Found(v) == [found |-> TRUE, value |-> v]

\* SkipColons that skips nothing
SkipColonsNone(tokens, j) == j

\* lines 147-149 and 162-164: while j < n and stripped[j].strip() == ":": j += 1
RECURSIVE SkipColons(_, _)
SkipColons(tokens, j) ==
    IF j <= Len(tokens) /\ Strip(tokens[j]) = Colon THEN SkipColons(tokens, j + 1) ELSE j

\* lines 147-153 and 162-168: the first string after index i that is not ":"
ValueAfter(tokens, i) ==
    LET j == SkipColons(tokens, i + 1)
    IN  IF j <= Len(tokens) THEN Found(Strip(tokens[j])) ELSE None

\* lines 140-171: the for loop from index i on
RECURSIVE FindFrom(_, _, _)
FindFrom(tokens, label, i) ==
    IF i > Len(tokens) THEN None
    ELSE LET lb_lower == Lower(label)
             sl == Strip(tokens[i])
             slower == Lower(sl)
         IN  IF slower = lb_lower THEN ValueAfter(tokens, i)
             ELSE IF StartsWith(slower, lb_lower \o Colon)
             THEN LET after == Strip(SubSeq(sl, Len(label) + 2, Len(sl)))
                  IN  IF after # <<>> /\ after # Colon THEN Found(after)
                      ELSE ValueAfter(tokens, i)
             ELSE FindFrom(tokens, label, i + 1)

\* the loop run from the last string down: the last occurrence of the label wins
RECURSIVE FindFromLast(_, _, _)
FindFromLast(tokens, label, i) ==
    IF i < 1 THEN None
    ELSE LET lb_lower == Lower(label)
             sl == Strip(tokens[i])
             slower == Lower(sl)
         IN  IF slower = lb_lower THEN ValueAfter(tokens, i)
             ELSE IF StartsWith(slower, lb_lower \o Colon)
             THEN LET after == Strip(SubSeq(sl, Len(label) + 2, Len(sl)))
                  IN  IF after # <<>> /\ after # Colon THEN Found(after)
                      ELSE ValueAfter(tokens, i)
             ELSE FindFromLast(tokens, label, i - 1)

find_label_value_last(tokens, label) == FindFromLast(tokens, label, Len(tokens))

\* _find_label_value(soup, label_base), on the stripped strings of soup
find_label_value(tokens, label) == FindFrom(tokens, label, 1)

Serienummer  == <<"S","e","r","i","e","n","u","m","m","e","r">>
Diarienummer == <<"D","i","a","r","i","e","n","u","m","m","e","r">>
RapportValue == <<"R","a","p","p","o","r","t"," ","2","0","2","4",":","1","7">>
CaseValue    == <<"2","0","2","1","/","6","8">>

TokLabel           == Serienummer
TokLabelLower      == Lower(Serienummer)
TokColon           == Colon
TokLabelColon      == Serienummer \o Colon
TokLabelColonValue == Serienummer \o <<":"," ">> \o RapportValue
TokValue           == RapportValue
TokLabelColonColon == Serienummer \o <<":"," ",":">>
TokOtherLabel      == Diarienummer
TokUpperColonValue == <<"S","E","R","I","E","N","U","M","M","E","R",":">> \o CaseValue
TokNearLabel       == Serienummer \o <<"x">>

\* the stripped strings tried: each is non-empty and has no white space at
\* its ends, as soup.stripped_strings yields them
Tokens == {TokLabel, TokLabelLower, TokColon, TokLabelColon, TokLabelColonValue, TokValue,
           TokLabelColonColon, TokOtherLabel, TokUpperColonValue, TokNearLabel}

\* a bound on the number of stripped strings of a tried document
MaxTokens == 3

\* lines 190-191: the two labels parse_report looks up
Labels == {Serienummer, Diarienummer}

InitLabel ==
    /\ IdleCalls
    /\ IdleCrawl
    /\ IdleJunk
    /\ IdleListing
    /\ stripped \in UNION {[1..n -> Tokens] : n \in 0..MaxTokens}
    /\ label_base \in Labels
    /\ label_done = FALSE
    /\ label_result = None

\* lines 136-171: one call of _find_label_value
FindLabelValue ==
    /\ label_done = FALSE
    /\ label_base \in Labels
    /\ label_result' = find_label_value(stripped, label_base)
    /\ label_done' = TRUE
    /\ UNCHANGED <<stripped, label_base, notLabel>>

NextLabel == FindLabelValue

SpecLabel == InitLabel /\ [][NextLabel]_vars

-----------------------------------------------------------------------------
(* The listing pages: is_valid_listing_page, extract_report_links,         *)
(* fetch_listing_pages and the start of main                               *)

\* A rendered listing page is kept as what the code reads from it: whether a
\* h1, h2 or h3 holds "Publikationer", len(html), and its <a> and
\* <time class="lp-filterable-list-item-date"> elements in document order.
Html(marker, length, body) == [marker |-> marker, length |-> length, body |-> body]

AnchorTag(href) == [tag |-> "a", href |-> href, text |-> <<>>]
TimeTag(text)   == [tag |-> "time", href |-> <<>>, text |-> text]

PublikationerPrefix == <<"/","p","u","b","l","i","k","a","t","i","o","n","e","r","/">>
SiteOrigin == <<"h","t","t","p","s",":","/","/","w","w","w",".","t","i","l","l","v","a","x","t",
                "a","n","a","l","y","s",".","s","e">>
HttpPrefix == <<"h","t","t","p">>

\* line 109: the categories of reports
ReportCategories == {<<"r","a","p","p","o","r","t">>, <<"p","m">>,
                     <<"s","t","a","t","i","s","t","i","k">>, <<"w","p">>}

\* is_valid_listing_page with the test dropped
is_valid_listing_page_always(html) == TRUE

\* lines 80-83
is_valid_listing_page(html) == html.marker

\* line 318: not html or len(html) < 1000
MinListingLength == 1000

\* TooShort with the test dropped
TooShortNever(html) == FALSE

TooShort(html) == html.length = 0 \/ html.length < MinListingLength

\* line 100: time_tag.find_previous("a", href=re.compile(r"^/publikationer/")):
\* the index of the closest anchor before element t whose href starts with
\* "/publikationer/", or 0
find_previous(body, t) ==
    LET before == {k \in 1..(t - 1) :
                      body[k].tag = "a" /\ StartsWith(body[k].href, PublikationerPrefix)}
    IN  IF before = {} THEN 0 ELSE CHOOSE k \in before : \A m \in before : m <= k

RECURSIVE ExtractFromAll(_, _, _)
\* ExtractFrom without the test for a url already in reports
ExtractFromAll(body, t, reports) ==
    IF t > Len(body) THEN reports
    ELSE IF body[t].tag # "time" THEN ExtractFromAll(body, t + 1, reports)
    ELSE LET date_str == body[t].text
             k == find_previous(body, t)
         IN  IF k = 0 THEN ExtractFromAll(body, t + 1, reports)
             ELSE LET href == body[k].href
                      parts == SplitOn(href, "/")
                      full_url == IF StartsWith(href, HttpPrefix) THEN href ELSE SiteOrigin \o href
                  IN  IF /\ href # <<>>
                         /\ Len(parts) > 2
                         /\ Lower(parts[3]) \in ReportCategories
                      THEN ExtractFromAll(body, t + 1,
                                          Append(reports, [url |-> full_url, date |-> date_str]))
                      ELSE ExtractFromAll(body, t + 1, reports)

\* lines 97-113: the for loop over the time tags, from element t on
RECURSIVE ExtractFrom(_, _, _)
ExtractFrom(body, t, reports) ==
    IF t > Len(body) THEN reports
    ELSE IF body[t].tag # "time" THEN ExtractFrom(body, t + 1, reports)
    ELSE LET date_str == body[t].text
             k == find_previous(body, t)
         IN  IF k = 0 THEN ExtractFrom(body, t + 1, reports)
             ELSE LET href == body[k].href
                      parts == SplitOn(href, "/")
                      full_url == IF StartsWith(href, HttpPrefix) THEN href ELSE SiteOrigin \o href
                  IN  IF /\ href # <<>>
                         /\ Len(parts) > 2
                         /\ Lower(parts[3]) \in ReportCategories
                         /\ \A r \in DOMAIN reports : reports[r].url # full_url
                      THEN ExtractFrom(body, t + 1,
                                       Append(reports, [url |-> full_url, date |-> date_str]))
                      ELSE ExtractFrom(body, t + 1, reports)

\* lines 85-115
extract_report_links(html) == ExtractFrom(html.body, 1, <<>>)

HrefRapport == PublikationerPrefix \o <<"r","a","p","p","o","r","t","/","r","1">>
HrefPm      == PublikationerPrefix \o <<"P","M","/","p","2">>
HrefOvrigt  == PublikationerPrefix \o <<"o","v","r","i","g","t","/","x">>
HrefOmOss   == <<"/","o","m","-","o","s","s">>
DateFeb     == <<"2","6"," ","f","e","b","r","u","a","r","i"," ","2","0","2","5">>
DateMars    == <<"1"," ","m","a","r","s"," ","2","0","2","4">>

\* the element lists of the listing pages tried
ListingBodies ==
    { <<>>,
      <<AnchorTag(HrefRapport), TimeTag(DateFeb)>>,
      <<AnchorTag(HrefRapport), TimeTag(DateFeb), AnchorTag(HrefPm), TimeTag(DateMars)>>,
      <<AnchorTag(HrefPm), TimeTag(DateMars), TimeTag(DateFeb)>>,
      <<TimeTag(DateFeb), AnchorTag(HrefRapport)>>,
      <<AnchorTag(HrefRapport), AnchorTag(HrefOvrigt), TimeTag(DateFeb)>>,
      <<AnchorTag(HrefPm), AnchorTag(HrefOmOss), TimeTag(DateMars)>> }

\* the pages the renderer can return
ListingPages ==
    {Html(m, n, b) : m \in BOOLEAN, n \in {MinListingLength - 1, MinListingLength},
                     b \in ListingBodies}

\* a bound on the page indices the site is asked for
MaxListingPages == 3

\* lines 309-312: the paginated URL, as the page index its query carries (0: none)
PaginatedUrl(page) == IF page = 1 THEN 0 ELSE page

RECURSIVE ConcatEntries(_)
\* lines 341-343: report_entries.extend(extract_report_links(html)) for each html
ConcatEntries(htmls) ==
    IF htmls = <<>> THEN <<>>
    ELSE extract_report_links(Head(htmls)) \o ConcatEntries(Tail(htmls))

InitListing ==
    /\ IdleCalls
    /\ IdleCrawl
    /\ IdleJunk
    /\ IdleLabel
    /\ IdleReports
    /\ IdleSinks
    /\ lpc = "start"
    /\ lsession = "none"
    /\ current_page = 1
    /\ all_listing_htmls = <<>>
    /\ loaded = <<>>
    /\ report_entries = <<>>
    /\ lcookies = {}
    /\ strace = <<>>

\* lines 298-303 and 353-358: the cookie that context.add_cookies sets
ConsentCookie == "CONSENT"

\* SeedCookies that sets nothing
SeedCookiesNone(cookies) == cookies

\* lines 298-303 and 353-358: context.add_cookies
SeedCookies(cookies) == cookies \cup {ConsentCookie}

\* lines 290-307: the context is launched, the cookie set and the page opened
OpenListingSession ==
    /\ lpc = "start"
    /\ lpc' = "listing"
    /\ lsession' = "open"
    /\ lcookies' = SeedCookies({})
    /\ current_page' = 1
    /\ all_listing_htmls' = <<>>
    /\ UNCHANGED <<loaded, report_entries, strace, notListing>>

\* NoReportLinks with the test dropped
NoReportLinksNever(html) == FALSE

\* lines 322-323: len(report_links) < 1
NoReportLinks(html) == Len(extract_report_links(html)) < 1

\* lines 308-314 and 328-330: get_html raises; the finally clause closes the
\* page and the context, and the exception leaves fetch_listing_pages and main
ListingLoadRaises ==
    /\ lpc = "listing"
    /\ current_page <= MaxListingPages
    /\ loaded' = Append(loaded, [index |-> current_page, url |-> PaginatedUrl(current_page),
                                 raised |-> TRUE, html |-> Html(FALSE, 0, <<>>),
                                 cookies |-> lcookies])
    /\ strace' = Append(strace, "load")
    /\ lsession' = "closed"
    /\ lpc' = "raised"
    /\ UNCHANGED <<current_page, all_listing_htmls, report_entries, lcookies, notListing>>

\* lines 308-325 and 328-331: the page is loaded and the loop breaks: no
\* marker, too short, or no report link
ListingPageEnds ==
    /\ lpc = "listing"
    /\ current_page <= MaxListingPages
    /\ \E html \in ListingPages :
         /\ \/ ~is_valid_listing_page(html)
            \/ TooShort(html)
            \/ NoReportLinks(html)
         /\ loaded' = Append(loaded, [index |-> current_page, url |-> PaginatedUrl(current_page),
                                      raised |-> FALSE, html |-> html, cookies |-> lcookies])
         /\ all_listing_htmls' =
               IF ~is_valid_listing_page(html) \/ TooShort(html)
               THEN all_listing_htmls
               ELSE Append(all_listing_htmls, html)
    /\ strace' = Append(strace, "load")
    /\ lsession' = "closed"
    /\ lpc' = "listed"
    /\ UNCHANGED <<current_page, report_entries, lcookies, notListing>>

\* lines 308-327: the page is loaded and kept, the page index goes up, and
\* the loop sleeps (line 327) and goes on
ListingPageContinues ==
    /\ lpc = "listing"
    /\ current_page <= MaxListingPages
    /\ \E html \in ListingPages :
         /\ is_valid_listing_page(html)
         /\ ~TooShort(html)
         /\ ~NoReportLinks(html)
         /\ loaded' = Append(loaded, [index |-> current_page, url |-> PaginatedUrl(current_page),
                                      raised |-> FALSE, html |-> html, cookies |-> lcookies])
         /\ all_listing_htmls' = Append(all_listing_htmls, html)
    /\ current_page' = current_page + 1
    /\ strace' = strace \o <<"load", "sleep">>
    /\ UNCHANGED <<lpc, lsession, report_entries, lcookies, notListing>>

\* lines 339-344: main collects the entries of the returned pages
ExtractEntries ==
    /\ lpc = "listed"
    /\ report_entries' = ConcatEntries(all_listing_htmls)
    /\ lpc' = "entries"
    /\ UNCHANGED <<lsession, current_page, all_listing_htmls, loaded, lcookies, strace, notListing>>

NextListing ==
    OpenListingSession \/ ListingLoadRaises \/ ListingPageEnds \/ ListingPageContinues
        \/ ExtractEntries

SpecListing == InitListing /\ [][NextListing]_vars

-----------------------------------------------------------------------------
(* parse_report and the report loop of main *)

\* A rendered report page is kept as what the code reads from it: len(html),
\* the text of its first <h1> (if any), its stripped strings, and the text
\* parse_report takes as the description.
ReportTitle == <<"R","1">>
ReportText  == <<"t","e","x","t">>

ReportPageFull ==
    [length |-> MinListingLength, h1 |-> Found(ReportTitle),
     strings |-> <<ReportTitle, TokLabel, TokColon, RapportValue, ReportText>>,
     description |-> ReportText]

ReportPageBare ==
    [length |-> MinListingLength - 1, h1 |-> None, strings |-> <<>>, description |-> <<>>]

\* the report pages the renderer can return
ReportPages == {ReportPageFull, ReportPageBare}

\* lines 175-210
parse_report(report_html) ==
    [report_name  |-> report_html.h1,
     serienummer  |-> find_label_value(report_html.strings, Serienummer),
     diarienummer |-> find_label_value(report_html.strings, Diarienummer),
     description  |-> report_html.description]

\* lines 374-376: the parsed fields with the url and the date of the entry
ReportRecord(entry, report_html) ==
    [report_name  |-> parse_report(report_html).report_name,
     serienummer  |-> parse_report(report_html).serienummer,
     diarienummer |-> parse_report(report_html).diarienummer,
     description  |-> parse_report(report_html).description,
     url  |-> entry.url,
     date |-> entry.date]

\* a bound on the number of listing pages whose entries the report loop is given
MaxKeptPages == 2

\* the listing pages after which fetch_listing_pages goes on
ContinuingPages ==
    {html \in ListingPages :
        /\ is_valid_listing_page(html)
        /\ ~TooShort(html)
        /\ Len(extract_report_links(html)) >= 1}

\* the lists of kept listing pages of a run that ended on a page without marker
KeptPageLists ==
    UNION {[1..n -> ContinuingPages] : n \in 0..MaxKeptPages}

\* the page without marker that ended the listing loop
LastListingPage == Html(FALSE, MinListingLength, <<>>)

\* main after lines 339-344, for a listing run that kept the pages htmls
InitReports ==
    /\ IdleCalls
    /\ IdleCrawl
    /\ IdleJunk
    /\ IdleLabel
    /\ IdleReports
    /\ IdleSinks
    /\ \E htmls \in KeptPageLists :
         /\ all_listing_htmls = htmls
         /\ loaded = [k \in 1..(Len(htmls) + 1) |->
                        [index |-> k, url |-> PaginatedUrl(k), raised |-> FALSE,
                         html |-> IF k <= Len(htmls) THEN htmls[k] ELSE LastListingPage,
                         cookies |-> SeedCookies({})]]
         /\ current_page = Len(htmls) + 1
         /\ report_entries = ConcatEntries(htmls)
         /\ strace = [k \in 1..(2 * Len(htmls) + 1) |-> IF k % 2 = 1 THEN "load" ELSE "sleep"]
    /\ lcookies = SeedCookies({})
    /\ lsession = "closed"
    /\ lpc = "entries"

\* lines 346-361: the second context is launched and the cookie set
OpenReportSession ==
    /\ lpc = "entries"
    /\ lpc' = "reports"
    /\ rcontext' = "open"
    /\ rpages' = {}
    /\ entry_idx' = 1
    /\ reports_data' = <<>>
    /\ rcookies' = SeedCookies({})
    /\ report_loads' = <<>>
    /\ UNCHANGED strace
    /\ UNCHANGED <<lsession, current_page, all_listing_htmls, loaded, report_entries, lcookies,
                   notScraper, sinkVars>>

\* lines 362-367 and 380-382: context.new_page raises; no page was opened;
\* the loop sleeps (line 382)
ReportNewPageRaises ==
    /\ lpc = "reports"
    /\ entry_idx <= Len(report_entries)
    /\ entry_idx' = entry_idx + 1
    /\ report_loads' = Append(report_loads, [entry |-> entry_idx, outcome |-> "new_page raises",
                                              cookies |-> rcookies])
    /\ strace' = Append(strace, "sleep")
    /\ UNCHANGED <<lpc, rcontext, rpages, reports_data, rcookies>>
    /\ UNCHANGED <<lsession, current_page, all_listing_htmls, loaded, report_entries, lcookies,
                   notScraper, sinkVars>>

\* ReportLoadRaises with the try statement around the loop: the failure
\* ends the loop
ReportLoadRaisesBreaks ==
    /\ lpc = "reports"
    /\ entry_idx <= Len(report_entries)
    /\ rpages' = rpages \cup {entry_idx}
    /\ entry_idx' = Len(report_entries) + 1
    /\ report_loads' = Append(report_loads, [entry |-> entry_idx, outcome |-> "load raises",
                                              cookies |-> rcookies])
    /\ strace' = Append(strace, "report")
    /\ UNCHANGED <<lpc, rcontext, reports_data, rcookies>>
    /\ UNCHANGED <<lsession, current_page, all_listing_htmls, loaded, report_entries, lcookies,
                   notScraper, sinkVars>>

\* lines 362-368 and 380-382: get_html raises; the except clause logs the
\* error, page.close() of line 379 is not reached, and the loop sleeps
ReportLoadRaises ==
    /\ lpc = "reports"
    /\ entry_idx <= Len(report_entries)
    /\ rpages' = rpages \cup {entry_idx}
    /\ entry_idx' = entry_idx + 1
    /\ report_loads' = Append(report_loads, [entry |-> entry_idx, outcome |-> "load raises",
                                              cookies |-> rcookies])
    /\ strace' = strace \o <<"report", "sleep">>
    /\ UNCHANGED <<lpc, rcontext, reports_data, rcookies>>
    /\ UNCHANGED <<lsession, current_page, all_listing_htmls, loaded, report_entries, lcookies,
                   notScraper, sinkVars>>

\* lines 362-379 and 382: the page is loaded and parsed, the record is
\* appended, the page is closed and the loop sleeps
ReportProcessed ==
    /\ lpc = "reports"
    /\ entry_idx <= Len(report_entries)
    /\ \E report_html \in ReportPages :
         reports_data' = Append(reports_data, ReportRecord(report_entries[entry_idx], report_html))
    /\ entry_idx' = entry_idx + 1
    /\ report_loads' = Append(report_loads, [entry |-> entry_idx, outcome |-> "loaded",
                                              cookies |-> rcookies])
    /\ strace' = strace \o <<"report", "sleep">>
    /\ UNCHANGED <<lpc, rcontext, rpages, rcookies>>
    /\ UNCHANGED <<lsession, current_page, all_listing_htmls, loaded, report_entries, lcookies,
                   notScraper, sinkVars>>

\* line 383: context.close(), which also closes the pages the context still holds
CloseReportSession ==
    /\ lpc = "reports"
    /\ entry_idx > Len(report_entries)
    /\ rcontext' = "closed"
    /\ rpages' = {}
    /\ lpc' = "processed"
    /\ UNCHANGED <<entry_idx, reports_data, rcookies, report_loads, strace>>
    /\ UNCHANGED <<lsession, current_page, all_listing_htmls, loaded, report_entries, lcookies,
                   notScraper, sinkVars>>

\* lines 220-223: the urls of the rows below the header
ExistingUrls(rows) == {rows[i].url : i \in DOMAIN rows}

RECURSIVE AppendNew(_, _, _)
\* lines 224-234: the reports whose url is not in existing_urls are appended;
\* existing_urls is the set read before the loop
AppendNew(rows, reports, existing_urls) ==
    IF reports = <<>> THEN rows
    ELSE AppendNew(IF Head(reports).url \notin existing_urls
                   THEN Append(rows, Head(reports)) ELSE rows,
                   Tail(reports), existing_urls)

\* lines 216-254
save_to_excel(sheet, reports) ==
    IF sheet.exists
    THEN [exists |-> TRUE, rows |-> AppendNew(sheet.rows, reports, ExistingUrls(sheet.rows))]
    ELSE [exists |-> TRUE, rows |-> reports]

RECURSIVE save_to_sqlite(_, _)
\* lines 256-287: each INSERT adds a row unless the UNIQUE constraint on url
\* raises IntegrityError
save_to_sqlite(rows, reports) ==
    IF reports = <<>> THEN rows
    ELSE save_to_sqlite(IF Head(reports).url \in ExistingUrls(rows)
                        THEN rows ELSE Append(rows, Head(reports)),
                        Tail(reports))

\* lines 385-390: the records of the run are saved to both sinks
SaveResults ==
    /\ lpc = "processed"
    /\ xlsx' = save_to_excel(xlsx, reports_data)
    /\ db' = save_to_sqlite(db, reports_data)
    /\ saves' = saves + 1
    /\ lpc' = "saved"
    /\ UNCHANGED <<lsession, current_page, all_listing_htmls, loaded, report_entries, lcookies,
                   strace, notScraper>>
    /\ UNCHANGED reportVars

NextReports ==
    OpenReportSession \/ ReportNewPageRaises \/ ReportLoadRaises \/ ReportProcessed
        \/ CloseReportSession \/ SaveResults

SpecReports == InitReports /\ [][NextReports]_vars

-----------------------------------------------------------------------------
(* The record sinks over several runs *)

EntryRapport == [url |-> SiteOrigin \o HrefRapport, date |-> DateFeb]
EntryPm      == [url |-> SiteOrigin \o HrefPm, date |-> DateMars]

\* the records saved
SinkRecords ==
    {ReportRecord(EntryRapport, ReportPageFull), ReportRecord(EntryRapport, ReportPageBare),
     ReportRecord(EntryPm, ReportPageFull), ReportRecord(EntryPm, ReportPageBare)}

\* bounds on the length of reports_data and on the number of runs that save
MaxBatch == 2
MaxSaves == 3

\* the values of reports_data saved
Batches == UNION {[1..n -> SinkRecords] : n \in 0..MaxBatch}

InitSave ==
    /\ IdleCalls
    /\ IdleCrawl
    /\ IdleJunk
    /\ IdleLabel
    /\ IdleListing

\* lines 389-390 of one more run of main: reports.xlsx and reports.db are
\* the files the run before left
SaveBatch ==
    /\ saves < MaxSaves
    /\ \E reports \in Batches :
         /\ xlsx' = save_to_excel(xlsx, reports)
         /\ db' = save_to_sqlite(db, reports)
    /\ saves' = saves + 1
    /\ UNCHANGED notSinks

NextSave == SaveBatch

SpecSave == InitSave /\ [][NextSave]_vars

-----------------------------------------------------------------------------
(* Several calls of crawl_for_pdfs, as run_all_tasks makes them *)

RunIds == {1, 2}

\* a bound on the max_depth of the calls
RunMaxDepth == 1

SeedDocs == Url(ExampleOrg, PathDocs, QueryNone)

\* the seeds of the calls (the entries of URLS)
RunSeeds == {SeedUrl, SeedDocs}

\* the anchors of the pages served to the calls
RunLinkLists == {<<>>, <<HrefDocs, HrefReport>>, <<HrefAbout, HrefDocs>>}

RunResponses(u) == {[final_url |-> u, links |-> l] : l \in RunLinkLists}

\* lines 88-90: the locals of a call that has just started
NewRun(seed, maxd) ==
    [base_url |-> seed, max_depth |-> maxd, visited |-> {},
     to_visit |-> <<[url |-> seed, depth |-> 0]>>, pdf_links |-> <<>>,
     cpc |-> "crawl", fetched |-> <<>>, downloaded |-> <<>>]

\* visited as one set that all calls read
VisitedOfAny(rs, r) == UNION {rs[q].visited : q \in DOMAIN rs}

\* line 88: visited is a local of the call
VisitedOf(rs, r) == rs[r].visited

\* the values the locals of call r can have after its next step: an iteration
\* of the while loop (lines 92-134), the end of the loop (line 136) or a
\* download (lines 139-140)
RunNext(rs, r) ==
    LET run == rs[r]
        seen0 == VisitedOf(rs, r)
    IN  IF run.cpc = "crawl" /\ run.to_visit = <<>>
        THEN {[run EXCEPT !.cpc = IF run.pdf_links = <<>> THEN "done" ELSE "download"]}
        ELSE IF run.cpc = "crawl" /\ AlreadyVisited(Head(run.to_visit).url, seen0)
        THEN {[run EXCEPT !.to_visit = Dequeue(run.to_visit)]}
        ELSE IF run.cpc = "crawl"
        THEN LET current_url == Head(run.to_visit).url
                 depth == Head(run.to_visit).depth
                 seen == MarkVisited(current_url, seen0)
             IN  {[run EXCEPT
                     !.visited = seen,
                     !.to_visit = Dequeue(run.to_visit),
                     !.fetched = Append(run.fetched,
                                   [url |-> current_url, depth |-> depth, kind |-> kind,
                                    final_url |-> current_url, links |-> <<>>])]
                  : kind \in {"error", "nonhtml"}}
                 \cup
                 {[run EXCEPT
                     !.visited = seen,
                     !.to_visit = Enqueue(Dequeue(run.to_visit),
                                          NewFrontier(Anchors(response.final_url, response.links),
                                                      run.base_url, depth, run.max_depth, seen)),
                     !.pdf_links = run.pdf_links
                         \o NewPdfLinks(Anchors(response.final_url, response.links), current_url,
                                        run.base_url, depth, run.max_depth, seen),
                     !.fetched = Append(run.fetched,
                                   [url |-> current_url, depth |-> depth, kind |-> "html",
                                    final_url |-> response.final_url, links |-> response.links])]
                  : response \in RunResponses(current_url)}
        ELSE IF run.cpc = "download"
        THEN {[run EXCEPT
                 !.downloaded = Append(run.downloaded, run.pdf_links[Len(run.downloaded) + 1].url),
                 !.cpc = IF Len(run.downloaded) + 1 = Len(run.pdf_links)
                         THEN "done" ELSE "download"]}
        ELSE {}

\* lines 27-28 of main.py: the calls, each with its seed
InitRuns ==
    /\ IdleCalls
    /\ IdleLocals
    /\ IdleJunk
    /\ IdleLabel
    /\ IdleListing
    /\ \E seeds \in [RunIds -> RunSeeds] : \E maxd \in 0..RunMaxDepth :
         runs = [r \in RunIds |-> NewRun(seeds[r], maxd)]

\* one step of one of the calls
RunStep ==
    /\ \E r \in DOMAIN runs : \E next \in RunNext(runs, r) :
         runs' = [runs EXCEPT ![r] = next]
    /\ UNCHANGED notRuns

NextRuns == RunStep

SpecRuns == InitRuns /\ [][NextRuns]_vars

-----------------------------------------------------------------------------
(* extract_report_links on the pages of a bounded set *)

\* the elements the pages are made of
ExtractElements ==
    {AnchorTag(HrefRapport), AnchorTag(HrefPm), AnchorTag(HrefOvrigt), AnchorTag(HrefOmOss),
     TimeTag(DateFeb), TimeTag(DateMars)}

\* a bound on the number of elements of a page
MaxElements == 4

ExtractBodies == UNION {[1..n -> ExtractElements] : n \in 0..MaxElements}

InitExtract ==
    /\ IdleCrawl
    /\ IdleJunk
    /\ IdleLabel
    /\ IdleListing
    /\ IdleRetry
    /\ IdlePath
    /\ ex_body \in ExtractBodies
    /\ ex_result = [done |-> FALSE, reports |-> <<>>]

\* lines 85-115: the call returns
ExtractReportLinks ==
    /\ ~ex_result.done
    /\ ex_result' = [done |-> TRUE,
                     reports |-> extract_report_links(Html(TRUE, MinListingLength, ex_body))]
    /\ UNCHANGED <<ex_body, retryVars, pathVars, notCalls>>

NextExtract == ExtractReportLinks

SpecExtract == InitExtract /\ [][NextExtract]_vars

-----------------------------------------------------------------------------
(* get_report_html_alternative *)

\* a bound on the parameter retries (RETRY_COUNT, its default, is 3)
MaxRetries == 3

\* line 63: len(html) > 100
MinRetryLength == 100

\* the html is kept as its length; "" has length 0
EmptyHtml == [length |-> 0]
RetryContents == {EmptyHtml, [length |-> MinRetryLength], [length |-> MinRetryLength + 1]}

\* line 63: html and len(html) > 100
GoodContent(html) == html.length # 0 /\ html.length > MinRetryLength

\* PagesAfterAttempt that closes the page on the paths that do not raise only
PagesAfterAttemptNoFinally(open, attempt, outcome) ==
    IF outcome = "load raises" THEN open \cup {attempt} ELSE open

\* lines 58-75: the pages open after an attempt: the page of line 61, if
\* new_page returned it, is closed in the finally clause
PagesAfterAttempt(open, attempt, outcome) ==
    IF outcome = "new_page raises" THEN open
    ELSE (open \cup {attempt}) \ {attempt}

InitRetry ==
    /\ IdleCrawl
    /\ IdleJunk
    /\ IdleLabel
    /\ IdleListing
    /\ IdleExtract
    /\ IdlePath
    /\ rt_retries \in 0..MaxRetries
    /\ rt_log = <<>>
    /\ rt_open = {}
    /\ rt_result = [done |-> FALSE, html |-> EmptyHtml]

\* lines 57-76: an attempt that raises (in new_page or in get_html); the
\* error is logged and the loop sleeps
RetryAttemptRaises ==
    /\ ~rt_result.done
    /\ Len(rt_log) < rt_retries
    /\ \E outcome \in {"new_page raises", "load raises"} :
         /\ rt_log' = Append(rt_log, [outcome |-> outcome, html |-> EmptyHtml])
         /\ rt_open' = PagesAfterAttempt(rt_open, Len(rt_log) + 1, outcome)
    /\ UNCHANGED <<rt_retries, rt_result, extractVars, pathVars, notCalls>>

\* lines 57-67 and 70-76: an attempt that loads a page that is empty or too
\* short; the loop sleeps
RetryAttemptShort ==
    /\ ~rt_result.done
    /\ Len(rt_log) < rt_retries
    /\ \E html \in RetryContents :
         /\ ~GoodContent(html)
         /\ rt_log' = Append(rt_log, [outcome |-> "loaded", html |-> html])
    /\ rt_open' = PagesAfterAttempt(rt_open, Len(rt_log) + 1, "loaded")
    /\ UNCHANGED <<rt_retries, rt_result, extractVars, pathVars, notCalls>>

\* lines 57-65 and 70-75: an attempt that loads a page that is long enough;
\* the call returns it
RetryAttemptReturns ==
    /\ ~rt_result.done
    /\ Len(rt_log) < rt_retries
    /\ \E html \in RetryContents :
         /\ GoodContent(html)
         /\ rt_log' = Append(rt_log, [outcome |-> "loaded", html |-> html])
         /\ rt_result' = [done |-> TRUE, html |-> html]
    /\ rt_open' = PagesAfterAttempt(rt_open, Len(rt_log) + 1, "loaded")
    /\ UNCHANGED <<rt_retries, extractVars, pathVars, notCalls>>

\* lines 77-78: all attempts failed, "" is returned
RetryGivesUp ==
    /\ ~rt_result.done
    /\ Len(rt_log) >= rt_retries
    /\ rt_result' = [done |-> TRUE, html |-> EmptyHtml]
    /\ UNCHANGED <<rt_retries, rt_log, rt_open, extractVars, pathVars, notCalls>>

NextRetry == RetryAttemptRaises \/ RetryAttemptShort \/ RetryAttemptReturns \/ RetryGivesUp

SpecRetry == InitRetry /\ [][NextRetry]_vars

-----------------------------------------------------------------------------
(* The destination of a download (pdf_crawler.py, sanitize_filename and    *)
(* download_pdf lines 50-65)                                               *)

\* the class \w of the pattern of line 27, for the modelled alphabet
WordChars == UpperSet \cup {LowerChars[i] : i \in DOMAIN LowerChars} \cup Digits \cup {"_"}

\* the characters the pattern [^\w\-.] of line 27 leaves in place
KeptChars == WordChars \cup {"-", "."}

\* lines 20-27: name.strip().replace(" ", "-"), and then the characters
\* outside the kept ones removed
sanitize_filename(name) ==
    LET stripped_name == Strip(name)
        hyphened == [i \in 1..Len(stripped_name) |->
                        IF stripped_name[i] = " " THEN "-" ELSE stripped_name[i]]
    IN  SelectSeq(hyphened, LAMBDA c : c \in KeptChars)

\* lines 29-40, for a link whose nearest heading element has the text
\* heading: an element whose stripped text is empty is no heading (line 36)
extract_section_name(heading) ==
    IF heading.found /\ Strip(heading.value) # <<>> THEN Found(Strip(heading.value)) ELSE None

\* os.path.basename: what follows the last "/"
basename(p) ==
    LET slashes == {i \in DOMAIN p : p[i] = "/"}
    IN  IF slashes = {} THEN p
        ELSE SubSeq(p, (CHOOSE i \in slashes : \A k \in slashes : k <= i) + 1, Len(p))

\* os.path.splitext(p)[0] for a p without "/": p up to its last ".", unless
\* only "." stand before it
splitext_root(p) ==
    LET dots == {i \in DOMAIN p : p[i] = "."}
        last == CHOOSE i \in dots : \A k \in dots : k <= i
    IN  IF dots = {} THEN p
        ELSE IF \E k \in 1..(last - 1) : p[k] # "." THEN SubSeq(p, 1, last - 1)
        ELSE p

\* s.endswith(suffix)
EndsWith(s, suffix) ==
    Len(suffix) <= Len(s) /\ SubSeq(s, Len(s) - Len(suffix) + 1, Len(s)) = suffix

\* lines 50-51: extract_section_name(link) or "General", sanitized
SectionOf(heading) ==
    sanitize_filename(IF extract_section_name(heading).found
                      THEN extract_section_name(heading).value
                      ELSE <<"G","e","n","e","r","a","l">>)

\* lines 53-56: link.get_text(strip=True), or the document name without its extension
SubfolderOf(text, pdf_url) ==
    sanitize_filename(IF Strip(text) # <<>> THEN Strip(text) ELSE splitext_root(basename(pdf_url)))

\* lines 62-64
PdfFilenameOf(pdf_url) ==
    LET pdf_filename == sanitize_filename(basename(pdf_url))
    IN  IF EndsWith(Lower(pdf_filename), DotPdf) THEN pdf_filename ELSE pdf_filename \o DotPdf

\* bounds on the length of the heading text and of the link text
MaxHeadingLen == 3
MaxTextLen == 2

\* the heading and link texts followed: a letter, a space, a dot and a
\* character that sanitize_filename removes
Texts(n) == UNION {[1..k -> {"a", " ", ".", "/"}] : k \in 0..n}

\* URLs that crawl_for_pdfs takes for documents (".pdf" is in each)
DocUrls ==
    {UrlString(Url(ExampleOrg, PathReport, QueryNone)),
     UrlString(Url(ExampleOrg, PathReportUc, QueryV)),
     UrlString(Url(ExampleOrg, PathRoot, QueryPdf)),
     UrlString(Url(ExampleOrg, PathX \o <<"/">>, QueryNone))}

InitPath ==
    /\ IdleCrawl
    /\ IdleJunk
    /\ IdleLabel
    /\ IdleListing
    /\ IdleExtract
    /\ IdleRetry
    /\ dl_heading \in {None} \cup {Found(h) : h \in Texts(MaxHeadingLen)}
    /\ dl_text \in Texts(MaxTextLen)
    /\ dl_url \in DocUrls
    /\ dl_path = [done |-> FALSE, section |-> <<>>, subfolder |-> <<>>, pdf_filename |-> <<>>]

\* lines 50-65: the segments of file_path below base_download_dir, but for
\* the timestamp
DownloadPath ==
    /\ ~dl_path.done
    /\ dl_path' = [done |-> TRUE,
                   section |-> SectionOf(dl_heading),
                   subfolder |-> SubfolderOf(dl_text, dl_url),
                   pdf_filename |-> PdfFilenameOf(dl_url)]
    /\ UNCHANGED <<dl_heading, dl_text, dl_url, extractVars, retryVars, notCalls>>

NextPath == DownloadPath

SpecPath == InitPath /\ [][NextPath]_vars

\* the traversal with the scheduling the code has: the loop runs on as long as
\* it can, every fetch returning
FairCrawl == SpecCrawl /\ WF_vars(NextCrawl)

-----------------------------------------------------------------------------
(* Properties of crawl_for_pdfs *)

\* the URLs requests.get was called with on line 99, in call order
FetchedUrlSeq == [i \in DOMAIN fetched |-> fetched[i].url]

\* the resolved anchors of a logged HTML response
AnchorsOf(f) == Anchors(f.final_url, f.links)

AnchorUrlsOf(f) == {AnchorsOf(f)[i].full_url : i \in DOMAIN AnchorsOf(f)}

HtmlFetches == {i \in DOMAIN fetched : fetched[i].kind = "html"}

PdfUrlSet == {pdf_links[k].url : k \in DOMAIN pdf_links}

FrontierUrlSet == {to_visit[k].url : k \in DOMAIN to_visit}

TraversalOver == cpc # "crawl"

NoUrlFetchedTwice ==
    \A i \in DOMAIN fetched : \A j \in DOMAIN fetched :
        fetched[i].url = fetched[j].url => i = j

\* C1: within one run of crawl_for_pdfs the traversal loop issues its GET for
\* every URL at most once, on every link graph, and the visited set only grows.
C1_FetchedAtMostOnce ==
    /\ [](NoUrlFetchedTwice /\ visited = {fetched[i].url : i \in DOMAIN fetched})
    /\ [][visited \subseteq visited']_vars

\* C1 witness: a URL that was enqueued twice has been fetched, and its second
\* frontier entry is still waiting to be dequeued
C1_Witness ==
    /\ \E k \in DOMAIN to_visit : to_visit[k].url \in visited
    /\ Len(fetched) >= 2

\* C2: every fetched URL is dequeued with depth <= max_depth, a page dequeued
\* at depth max_depth enqueues nothing, and with max_depth = 1 only the seed
\* and the links of the seed page are ever enqueued or fetched.
C2_DepthInv ==
    /\ \A i \in DOMAIN fetched : fetched[i].depth <= max_depth
    /\ \A k \in DOMAIN to_visit : to_visit[k].depth <= max_depth
    /\ max_depth = 1 =>
         \A u \in (visited \cup FrontierUrlSet) :
            \/ u = base_url
            \/ /\ fetched # <<>>
               /\ fetched[1].url = base_url
               /\ fetched[1].kind = "html"
               /\ u \in AnchorUrlsOf(fetched[1])

C2_DepthBound ==
    /\ [](C2_DepthInv)
    /\ [][(cpc = "crawl" /\ to_visit # <<>> /\ Head(to_visit).depth >= max_depth)
            => to_visit' = Tail(to_visit)]_vars

\* C2 witness: with max_depth = 1 a page one hop from the seed was fetched and
\* holds a link to a page that was never fetched, and the traversal is over
C2_Witness ==
    /\ max_depth = 1
    /\ TraversalOver
    /\ \E i \in HtmlFetches :
         /\ fetched[i].depth = 1
         /\ \E u \in AnchorUrlsOf(fetched[i]) :
              /\ u.netloc = base_url.netloc
              /\ ~IsTargetDocument(u) /\ ~IsJunkPage(u)
              /\ u \notin visited

\* C3: on every link graph and under every pattern of fetch outcomes the
\* traversal loop ends with the frontier empty.
C3_Terminates == <>(TraversalOver /\ to_visit = <<>>)

\* C3 witness: the loop has ended after a failed fetch and after fetching a page
\* that links to itself
C3_Witness ==
    /\ TraversalOver
    /\ \E i \in DOMAIN fetched : fetched[i].kind = "error"
    /\ \E i \in HtmlFetches : fetched[i].url \in AnchorUrlsOf(fetched[i])

\* C4: a link takes part in the traversal exactly if its authority equals the
\* authority of base_url: no URL of another authority is enqueued, fetched or
\* recorded, and every anchor of the same authority is filtered, recorded or
\* enqueued as the rest of the loop body says.
C4_SameDomainOnly ==
    /\ \A k \in DOMAIN to_visit : to_visit[k].url.netloc = base_url.netloc
    /\ \A i \in DOMAIN fetched : fetched[i].url.netloc = base_url.netloc
    /\ \A k \in DOMAIN pdf_links : pdf_links[k].url.netloc = base_url.netloc
    /\ \A i \in HtmlFetches : \A n \in DOMAIN AnchorsOf(fetched[i]) :
         LET u == AnchorsOf(fetched[i])[n].full_url
         IN  (u.netloc = base_url.netloc /\ ~IsJunkPage(u)) =>
                IF IsTargetDocument(u)
                THEN \E k \in DOMAIN pdf_links :
                        pdf_links[k] = [url |-> u, link |-> [page |-> fetched[i].url, idx |-> n]]
                ELSE fetched[i].depth < max_depth => u \in (visited \cup FrontierUrlSet)

\* C4 witness: fetched pages held a document link and, above max_depth, a page
\* link of another authority, and the traversal is over
C4_Witness ==
    /\ TraversalOver
    /\ \E i \in HtmlFetches : \E u \in AnchorUrlsOf(fetched[i]) :
          u.netloc # base_url.netloc /\ IsTargetDocument(u)
    /\ \E i \in HtmlFetches : \E u \in AnchorUrlsOf(fetched[i]) :
          /\ fetched[i].depth < max_depth
          /\ u.netloc # base_url.netloc /\ ~IsTargetDocument(u) /\ ~IsJunkPage(u)

\* the outgoing page links of a URL: the same-domain, non-junk, non-document
\* anchors of its HTML response (none when it was not fetched as HTML)
PageLinksOf(u) ==
    UNION {{v \in AnchorUrlsOf(fetched[i]) :
               v.netloc = base_url.netloc /\ ~IsJunkPage(v) /\ ~IsTargetDocument(v)}
           : i \in {j \in HtmlFetches : fetched[j].url = u}}

\* the URLs a chain of at most d page links leads to from the seed
RECURSIVE ReachWithin(_)
ReachWithin(d) ==
    IF d = 0 THEN {base_url}
    ELSE LET near == ReachWithin(d - 1)
         IN  near \cup UNION {PageLinksOf(u) : u \in near}

\* the scenario: seed https://example.org/, / -> /docs -> /docs/report.pdf,
\* with a link to https://other.org/x.pdf on /docs, max_depth = 2
ScenarioServed ==
    /\ base_url = SeedUrl
    /\ max_depth = 2
    /\ Len(fetched) = 2
    /\ fetched[1] = [url |-> SeedUrl, depth |-> 0, kind |-> "html",
                     final_url |-> SeedUrl, links |-> <<HrefDocs>>]
    /\ fetched[2] = [url |-> Url(ExampleOrg, PathDocs, QueryNone), depth |-> 1, kind |-> "html",
                     final_url |-> Url(ExampleOrg, PathDocs, QueryNone),
                     links |-> <<HrefReport, HrefOtherPdf>>]

\* C5: when the traversal is over, every page within max_depth page links of
\* the seed has been fetched, and every same-domain, non-junk document link of
\* every page fetched as HTML is in pdf_links; in the scenario pdf_links is
\* exactly the one link to /docs/report.pdf.
C5_DocumentsFound ==
    TraversalOver =>
        /\ ReachWithin(max_depth) \subseteq visited
        /\ \A i \in HtmlFetches : \A u \in AnchorUrlsOf(fetched[i]) :
              (u.netloc = base_url.netloc /\ ~IsJunkPage(u) /\ IsTargetDocument(u))
                 => u \in PdfUrlSet
        /\ ScenarioServed =>
              pdf_links = <<[url |-> Url(ExampleOrg, PathReport, QueryNone),
                             link |-> [page |-> Url(ExampleOrg, PathDocs, QueryNone), idx |-> 1]]>>

\* C5 witness: the scenario has run to its end
C5_Witness == TraversalOver /\ ScenarioServed

\* C6: no link whose path matches the junk pattern is enqueued, fetched or
\* recorded, also when its URL holds ".pdf".
C6_JunkBeforeDocument ==
    /\ \A k \in DOMAIN pdf_links : ~JunkPattern(pdf_links[k].url.path)
    /\ \A k \in DOMAIN to_visit : ~JunkPattern(to_visit[k].url.path)
    /\ \A i \in DOMAIN fetched : ~JunkPattern(fetched[i].url.path)

\* C6 witness: a fetched page held a same-domain link with a junk path and
\* ".pdf" in its query string, next to a document link that was recorded
C6_Witness ==
    /\ TraversalOver
    /\ \E i \in HtmlFetches : \E u \in AnchorUrlsOf(fetched[i]) :
          /\ u.netloc = base_url.netloc
          /\ JunkPattern(u.path)
          /\ Contains(Lower(UrlString(u)), DotPdf)
    /\ pdf_links # <<>>

-----------------------------------------------------------------------------
(* Properties of the junk-page pattern *)

LowerHexDigits == Digits \cup {"a","b","c","d","e","f"}
AnyCaseHexDigits == LowerHexDigits \cup {"A","B","C","D","E","F"}

\* a path of one segment: digits, optionally a dot and a suffix over hexdigits,
\* then ".html"
JunkShape(path, hexdigits) ==
    /\ path # <<>>
    /\ path[1] = "/"
    /\ \A i \in 2..Len(path) : path[i] # "/"
    /\ LET parts == SplitOn(Tail(path), ".")
       IN  /\ Len(parts) \in {2, 3}
           /\ parts[1] # <<>> /\ AllIn(parts[1], Digits)
           /\ parts[Len(parts)] = <<"h","t","m","l">>
           /\ Len(parts) = 3 => (parts[2] # <<>> /\ AllIn(parts[2], hexdigits))

JunkExamples ==
    /\ junk_path = PathJunkHex => junk_result = "match"
    /\ junk_path = PathAbout => junk_result = "no match"
    /\ junk_path = PathMultiSeg => junk_result = "no match"

\* C7 as stated: the junk predicate is true exactly for the one-segment paths
\* of digits, optionally a dot and a hexadecimal suffix, ending in ".html"
\* (hexadecimal digits in either case), and the three examples come out as given.
C7_JunkExactlyHex ==
    junk_result # "none" =>
        ((junk_result = "match") = JunkShape(junk_path, AnyCaseHexDigits) /\ JunkExamples)

\* C7 as amended: the same with the suffix made of digits and the lower-case
\* letters a to f only; a suffix with an upper-case letter A to F is not junk.
C7_JunkExactlyLowerHex ==
    junk_result # "none" =>
        ((junk_result = "match") = JunkShape(junk_path, LowerHexDigits) /\ JunkExamples)

\* C7 witness: a path with a hexadecimal suffix has been matched and found junk
C7_Witness ==
    /\ junk_result = "match"
    /\ Len(SplitOn(Tail(junk_path), ".")) = 3

-----------------------------------------------------------------------------
(* Properties of _find_label_value *)

\* string k is the label, or starts with the label and a colon, whatever the case
IsLabelToken(tok, label) ==
    \/ Lower(tok) = Lower(label)
    \/ StartsWith(Lower(tok), Lower(label) \o <<":">>)

LabelIndices == {k \in DOMAIN stripped : IsLabelToken(stripped[k], label_base)}

FirstLabelIndex == CHOOSE k \in LabelIndices : \A m \in LabelIndices : k <= m

\* the text of string k behind the label and its colon, without white space at its ends
InlineText(k) ==
    IF Len(stripped[k]) > Len(label_base) + 1
    THEN Strip(SubSeq(stripped[k], Len(label_base) + 2, Len(stripped[k])))
    ELSE <<>>

OnlyColonsAfter(k) == \A m \in (k + 1)..Len(stripped) : stripped[m] = <<":">>

\* C9: the split layout and the same-token layout give the same value, the two
\* examples give "Rapport 2024:17", a label followed by nothing or only by
\* bare colons gives absent, and the label is matched whatever its case.
C9_LabelLayouts ==
    label_done =>
        /\ (label_base = Serienummer /\ stripped = <<Serienummer, <<":">>, RapportValue>>)
              => label_result = Found(RapportValue)
        /\ (label_base = Serienummer /\ stripped = <<TokLabelColonValue>>)
              => label_result = Found(RapportValue)
        /\ (Len(stripped) = 3 /\ Lower(stripped[1]) = Lower(label_base)
                /\ stripped[2] = <<":">> /\ stripped[3] # <<":">>)
              => label_result = Found(stripped[3])
        /\ (Len(stripped) = 1 /\ StartsWith(Lower(stripped[1]), Lower(label_base) \o <<":">>)
                /\ InlineText(1) \notin {<<>>, <<":">>})
              => label_result = Found(InlineText(1))
        /\ (LabelIndices # {} /\ InlineText(FirstLabelIndex) \in {<<>>, <<":">>}
              /\ OnlyColonsAfter(FirstLabelIndex))
              => label_result = None

\* C9 witness: a lower-case label, a bare colon and a value have been looked up
C9_Witness ==
    /\ label_done
    /\ label_base = Serienummer
    /\ stripped = <<TokLabelLower, <<":">>, RapportValue>>
    /\ label_result = Found(RapportValue)

\* what the first occurrence of the label alone determines
FirstMatchValue ==
    LET k == FirstLabelIndex
        inline == InlineText(k)
        after == CHOOSE m \in (k + 1)..(Len(stripped) + 1) :
                    /\ \A q \in (k + 1)..(m - 1) : stripped[q] = <<":">>
                    /\ m <= Len(stripped) => stripped[m] # <<":">>
    IN  IF inline # <<>> /\ inline # <<":">> THEN Found(inline)
        ELSE IF after <= Len(stripped) THEN Found(stripped[after])
        ELSE None

\* C10: the result is what the first string that is the label, or starts with
\* the label and a colon, determines together with the strings behind it;
\* no later occurrence of the label changes it.
C10_FirstMatchWins ==
    label_done =>
        label_result = (IF LabelIndices = {} THEN None ELSE FirstMatchValue)

\* C10 witness: the label occurs twice; the string behind its first occurrence
\* was returned, which is the whole second occurrence, not the value in it
C10_Witness ==
    /\ label_done
    /\ label_base = Serienummer
    /\ stripped = <<TokLabel, TokLabelColonValue>>
    /\ Cardinality(LabelIndices) = 2
    /\ label_result = Found(TokLabelColonValue)

-----------------------------------------------------------------------------
(* Properties of the listing pagination *)

\* the loads that returned a page without the "Publikationer" heading
MarkerlessLoads == {n \in DOMAIN loaded : ~loaded[n].raised /\ ~loaded[n].html.marker}

\* the entries of the pages loaded with indices 1..n, page after page
RECURSIVE EntriesOfPages(_)
EntriesOfPages(n) ==
    IF n = 0 THEN <<>>
    ELSE EntriesOfPages(n - 1) \o extract_report_links(loaded[n].html)

\* C8: when page N is the first loaded page without the marker heading, no
\* page is loaded after it, and the entries main collects are the entries of
\* pages 1..N-1 in page order and in-page order, with none from page N.
C8_StopsAtMarkerlessPage ==
    \A n \in MarkerlessLoads :
        /\ n = Len(loaded)
        /\ loaded[n].index = n
        /\ lpc \in {"listed", "entries"}
        /\ \A k \in 1..(n - 1) :
              /\ loaded[k].index = k
              /\ ~loaded[k].raised
              /\ loaded[k].html.marker
              /\ loaded[k].html.length >= MinListingLength
              /\ extract_report_links(loaded[k].html) # <<>>
        /\ lpc = "entries" => report_entries = EntriesOfPages(n - 1)

\* C8 witness: page 3 was the first without the marker though it held report
\* links, and the entries of pages 1 and 2 were collected
C8_Witness ==
    /\ lpc = "entries"
    /\ Len(loaded) = 3
    /\ 3 \in MarkerlessLoads
    /\ extract_report_links(loaded[3].html) # <<>>
    /\ Len(extract_report_links(loaded[1].html)) = 2
    /\ Len(report_entries) >= 3

-----------------------------------------------------------------------------
(* Failed fetches, runs, document links and the frontier of crawl_for_pdfs *)

\* the logged fetches that failed or returned something that is not HTML
AbandonedFetches == {i \in DOMAIN fetched : fetched[i].kind # "html"}

AbandonedUrls == {fetched[i].url : i \in AbandonedFetches}

\* the number of frontier entries of queue that hold url u
EntriesFor(queue, u) == Cardinality({k \in DOMAIN queue : queue[k].url = u})

\* the step is a fetch that failed or was not HTML
AbandonStep ==
    /\ Len(fetched') = Len(fetched) + 1
    /\ fetched'[Len(fetched')].kind # "html"

\* C11: a URL whose fetch fails or is not HTML stays in visited, yields no
\* link (nothing is recorded or enqueued by that step), gets no new frontier
\* entry afterwards and is not fetched again, and the loop goes on with the
\* rest of the frontier.
C11_FailedFetchAbandoned ==
    /\ [](AbandonedUrls \subseteq visited /\ NoUrlFetchedTwice)
    /\ [][AbandonStep =>
            /\ to_visit' = Tail(to_visit)
            /\ pdf_links' = pdf_links
            /\ fetched'[Len(fetched')].links = <<>>
            /\ cpc' = "crawl"]_vars
    /\ [][\A u \in AbandonedUrls : EntriesFor(to_visit', u) <= EntriesFor(to_visit, u)]_vars

\* C11 witness: a fetch failed, a page fetched later below max_depth links to
\* the failed URL, and the traversal went on to its end
C11_Witness ==
    /\ TraversalOver
    /\ \E i \in AbandonedFetches : \E j \in HtmlFetches :
          /\ i < j
          /\ fetched[j].depth < max_depth
          /\ fetched[i].url \in AnchorUrlsOf(fetched[j])

-----------------------------------------------------------------------------
(* Failures, resources and duplicates of the scraper *)

\* the listing page loads on which get_html raised
RaisedLoads == {n \in DOMAIN loaded : loaded[n].raised}

\* the listing pages that were loaded, passed the two tests of the loop
\* and were kept
KeptLoads ==
    {n \in DOMAIN loaded :
        /\ ~loaded[n].raised
        /\ is_valid_listing_page(loaded[n].html)
        /\ ~TooShort(loaded[n].html)}

\* C12: a renderer failure while a listing page is loaded does not end the
\* listing run with an exception, and once the listing run is over the
\* entries of the pages loaded before the failure are handed on.
C12_ListingFailureCaught ==
    \A n \in RaisedLoads :
        /\ lpc # "raised"
        /\ lpc \notin {"listing", "listed"} =>
              \A k \in KeptLoads :
                 \A e \in DOMAIN extract_report_links(loaded[k].html) :
                    \E r \in DOMAIN report_entries :
                       report_entries[r] = extract_report_links(loaded[k].html)[e]

\* C13: the page and the context of the listing run are closed once the
\* listing loop is left; in the report loop no page of an earlier entry is
\* open when the next entry is taken or when the loop is over, and the
\* context is closed when the run ends.
C13_PagesAndContextsClosed ==
    /\ lpc \notin {"idle", "start", "listing"} => lsession = "closed"
    /\ rpages = {}
    /\ lpc = "processed" => rcontext = "closed"

\* no two rows hold the same url
OneRowPerUrl(rows) ==
    \A i \in DOMAIN rows : \A j \in DOMAIN rows : rows[i].url = rows[j].url => i = j

\* C14: after any sequence of saves each sink holds at most one row per url.
C14_OneRowPerUrl == OneRowPerUrl(xlsx.rows) /\ OneRowPerUrl(db)

\* C15: the entries handed on for report processing hold no two entries with
\* the same url, also when a report is listed on two pages.
C15_EntriesUniqueAcrossPages == OneRowPerUrl(report_entries)

RECURSIVE RunClosure(_)
\* the values of the locals that the calls in S can reach when each runs alone
RunClosure(S) ==
    LET N == S \cup UNION {RunNext(<<run>>, 1) : run \in S}
    IN  IF N = S THEN S ELSE RunClosure(N)

\* what a call of crawl_for_pdfs can reach when no other call is made
AloneReachable ==
    RunClosure({NewRun(seed, maxd) : seed \in RunSeeds, maxd \in 0..RunMaxDepth})

\* C16: whatever the other calls of crawl_for_pdfs do before or in between,
\* the locals, fetches and output of a call are ones it can have when it runs
\* alone, and its visited set holds the URLs it fetched itself and no other.
C16_RunsShareNoState ==
    \A r \in DOMAIN runs :
        /\ runs[r] \in AloneReachable
        /\ runs[r].visited = {runs[r].fetched[i].url : i \in DOMAIN runs[r].fetched}

\* C16 witness: two calls with the same seed are over, both fetched the seed
\* and a page behind it, and one recorded a document that the other did not
C16_Witness ==
    /\ runs # <<>>
    /\ \A r \in DOMAIN runs : runs[r].cpc = "done" /\ Len(runs[r].fetched) >= 2
    /\ runs[1].base_url = runs[2].base_url
    /\ runs[1].fetched[1].url = runs[2].fetched[1].url
    /\ runs[1].pdf_links # <<>>
    /\ runs[2].pdf_links = <<>>

\* ".pdf" in any mix of upper and lower case occurs at some position of str
HoldsDotPdf(str) ==
    \E i \in 1..(Len(str) - 3) :
        /\ str[i] = "."
        /\ str[i + 1] \in {"p", "P"}
        /\ str[i + 2] \in {"d", "D"}
        /\ str[i + 3] \in {"f", "F"}

\* C17: every same-domain, non-junk anchor whose absolute URL holds ".pdf"
\* in any case at any position is in pdf_links, whatever the depth of its
\* page, and no such URL is ever in the frontier or fetched by the loop.
C17_PdfAnywhereRecorded ==
    /\ \A i \in HtmlFetches : \A n \in DOMAIN AnchorsOf(fetched[i]) :
         LET u == AnchorsOf(fetched[i])[n].full_url
         IN  (u.netloc = base_url.netloc /\ ~JunkPattern(u.path) /\ HoldsDotPdf(UrlString(u)))
                => \E k \in DOMAIN pdf_links :
                      pdf_links[k] = [url |-> u, link |-> [page |-> fetched[i].url, idx |-> n]]
    /\ \A k \in DOMAIN to_visit : ~HoldsDotPdf(UrlString(to_visit[k].url))
    /\ \A i \in DOMAIN fetched : ~HoldsDotPdf(UrlString(fetched[i].url))

\* C17 witness: a page fetched at depth max_depth held a link to
\* /docs/Report.PDF?v=1, which was recorded, and the traversal is over
C17_Witness ==
    /\ TraversalOver
    /\ max_depth >= 1
    /\ \E i \in HtmlFetches :
         /\ fetched[i].depth = max_depth
         /\ \E n \in DOMAIN AnchorsOf(fetched[i]) :
              /\ AnchorsOf(fetched[i])[n].full_url = Url(ExampleOrg, PathReportUc, QueryV)
              /\ \E k \in DOMAIN pdf_links :
                    pdf_links[k] = [url |-> Url(ExampleOrg, PathReportUc, QueryV),
                                    link |-> [page |-> fetched[i].url, idx |-> n]]

\* C18: pdf_links holds each document URL at most once, so no document is
\* downloaded twice in a run.
C18_DocumentLinksUnique ==
    /\ \A j \in DOMAIN pdf_links : \A k \in DOMAIN pdf_links :
          pdf_links[j].url = pdf_links[k].url => j = k
    /\ \A j \in DOMAIN downloaded : \A k \in DOMAIN downloaded :
          downloaded[j] = downloaded[k] => j = k

\* C19: no step of the loop adds a frontier entry for a URL that is in
\* visited when the anchors of the page are processed: for every visited URL
\* the number of its frontier entries never goes up.
C19_NoEnqueueOfVisited ==
    [][\A u \in visited' : EntriesFor(to_visit', u) <= EntriesFor(to_visit, u)]_vars

\* C19 witness: a page fetched below max_depth links to a URL fetched before
\* it or to itself, and the traversal is over
C19_Witness ==
    /\ TraversalOver
    /\ \E i \in HtmlFetches : \E j \in 1..i :
          /\ fetched[i].depth < max_depth
          /\ fetched[j].url \in AnchorUrlsOf(fetched[i])

\* the frontier entries created so far, read off the log of fetches: the seed
\* entry, and for every page fetched below max_depth an entry one level
\* deeper for each of its page links that was not yet visited
EverEnqueued ==
    {[url |-> base_url, depth |-> 0]} \cup
    UNION {{[url |-> u, depth |-> fetched[i].depth + 1] :
              u \in {v \in AnchorUrlsOf(fetched[i]) :
                       /\ v.netloc = base_url.netloc
                       /\ ~JunkPattern(v.path)
                       /\ ~HoldsDotPdf(UrlString(v))
                       /\ fetched[i].depth < max_depth
                       /\ \A j \in 1..i : fetched[j].url # v}}
           : i \in HtmlFetches}

C20_FifoInv ==
    /\ fetched # <<>> => fetched[1].url = base_url /\ fetched[1].depth = 0
    /\ \A j \in DOMAIN to_visit : \A k \in DOMAIN to_visit :
          j <= k => to_visit[j].depth <= to_visit[k].depth
    /\ \A i \in DOMAIN fetched : \A j \in DOMAIN fetched :
          i <= j => fetched[i].depth <= fetched[j].depth
    /\ \A i \in DOMAIN fetched : \A e \in EverEnqueued :
          e.url = fetched[i].url => fetched[i].depth <= e.depth
    /\ \A k \in DOMAIN to_visit : to_visit[k] \in EverEnqueued

\* C20: the frontier is a FIFO queue that starts as (base_url, 0): each
\* iteration takes the head and new entries go to the tail, the depths of
\* the dequeued entries never go down, and a URL is fetched at the least
\* depth at which an entry for it was ever created.
C20_FifoMinDepth ==
    /\ [](C20_FifoInv)
    /\ [][(cpc = "crawl" /\ to_visit # <<>>) =>
            /\ Len(to_visit') >= Len(to_visit) - 1
            /\ SubSeq(to_visit', 1, Len(to_visit) - 1) = Tail(to_visit)
            /\ to_visit' # <<>> => Head(to_visit).depth <= Head(to_visit').depth
            /\ Len(fetched') > Len(fetched) =>
                  /\ fetched'[Len(fetched')].url = Head(to_visit).url
                  /\ fetched'[Len(fetched')].depth = Head(to_visit).depth]_vars

\* C20 witness: entries for one URL were created at depth 1 and at depth 2,
\* the URL was fetched, and the traversal is over
C20_Witness ==
    /\ TraversalOver
    /\ \E e1 \in EverEnqueued : \E e2 \in EverEnqueued :
          /\ e1.url = e2.url
          /\ e1.depth < e2.depth
          /\ \E i \in DOMAIN fetched : fetched[i].url = e1.url

-----------------------------------------------------------------------------
(* Page indices, extraction, cookies, delays and records of the scraper *)

\* the loads that returned a page below the minimum length or without entries
FinalLoads ==
    {n \in DOMAIN loaded :
        /\ ~loaded[n].raised
        /\ \/ loaded[n].html.length < MinListingLength
           \/ extract_report_links(loaded[n].html) = <<>>}

\* C21: the n-th load of the paginator is for page index n, by the bare
\* listing URL for n = 1 and with the page parameter set to n otherwise, and
\* a page that is too short or yields no entry is the last one loaded.
C21_ConsecutivePages ==
    /\ \A n \in DOMAIN loaded :
          /\ loaded[n].index = n
          /\ loaded[n].url = (IF n = 1 THEN 0 ELSE n)
    /\ \A n \in FinalLoads : n = Len(loaded) /\ lpc # "listing"
    /\ lpc = "listing" => current_page = Len(loaded) + 1

\* C21 witness: pages 1 and 2 were kept, page 3 had the heading and a report
\* link but was too short, and the loop was left
C21_Witness ==
    /\ lpc = "listed"
    /\ Len(loaded) = 3
    /\ loaded[3].html.marker
    /\ loaded[3].html.length < MinListingLength
    /\ extract_report_links(loaded[3].html) # <<>>
    /\ Len(all_listing_htmls) = 2

\* element k of the page is an anchor to a publication
ReportAnchorAt(k) ==
    ex_body[k].tag = "a" /\ ex_body[k].href \in {HrefRapport, HrefPm, HrefOvrigt}

\* the date marker at t resolves to the anchor at k: the closest one before it
ResolvesTo(t, k) ==
    /\ ex_body[t].tag = "time"
    /\ k \in 1..(t - 1)
    /\ ReportAnchorAt(k)
    /\ \A m \in (k + 1)..(t - 1) : ~ReportAnchorAt(m)

\* the hrefs whose category is one of rapport, pm, statistik, wp
ListedHrefs == {HrefRapport, HrefPm}

\* the date marker at t yields an entry: it resolves to a listed report that
\* no earlier date marker resolves to
Producing(t) ==
    \E k \in DOMAIN ex_body :
        /\ ResolvesTo(t, k)
        /\ ex_body[k].href \in ListedHrefs
        /\ \A t2 \in 1..(t - 1) : \A k2 \in DOMAIN ex_body :
              ResolvesTo(t2, k2) => ex_body[k2].href # ex_body[k].href

ProducingMarkers == {t \in DOMAIN ex_body : Producing(t)}

\* C22: the reports of one call hold no url twice; they are, in document
\* order of the date markers, one entry for each date marker that resolves
\* to a listed report no earlier marker resolves to, with the url of that
\* report and the date of that marker; a marker with no report anchor
\* before it yields nothing.
C22_PageExtraction ==
    ex_result.done =>
        LET reports == ex_result.reports
        IN  /\ OneRowPerUrl(reports)
            /\ Len(reports) = Cardinality(ProducingMarkers)
            /\ \A i \in DOMAIN reports :
                  \E t \in ProducingMarkers : \E k \in DOMAIN ex_body :
                     /\ Cardinality({t2 \in ProducingMarkers : t2 <= t}) = i
                     /\ ResolvesTo(t, k)
                     /\ reports[i] = [url |-> SiteOrigin \o ex_body[k].href,
                                      date |-> ex_body[t].text]

\* C22 witness: a date marker before any anchor, then a report anchor with
\* two date markers after it; the one entry has the date of the first of the two
C22_Witness ==
    /\ ex_result.done
    /\ ex_body = <<TimeTag(DateMars), AnchorTag(HrefRapport), TimeTag(DateFeb), TimeTag(DateMars)>>
    /\ ex_result.reports = <<[url |-> SiteOrigin \o HrefRapport, date |-> DateFeb]>>

\* the attempts that loaded content above the minimum length
GoodAttempts ==
    {i \in DOMAIN rt_log : rt_log[i].outcome = "loaded" /\ rt_log[i].html.length > MinRetryLength}

\* C23: at most retries attempts are made, none after one that loaded
\* content above the minimum length, whose content is what the call returns;
\* after each attempt no page is open; when every attempt failed the call
\* returns the empty string.
C23_BoundedRetry ==
    /\ Len(rt_log) <= rt_retries
    /\ rt_open = {}
    /\ \A i \in GoodAttempts : i = Len(rt_log) /\ rt_result = [done |-> TRUE, html |-> rt_log[i].html]
    /\ (rt_result.done /\ GoodAttempts = {}) =>
          Len(rt_log) = rt_retries /\ rt_result.html.length = 0

\* C23 witness: the first attempt raised in the load, the second loaded a
\* page too short, the third loaded a page that was returned
C23_Witness ==
    /\ rt_result.done
    /\ Len(rt_log) = 3
    /\ rt_log[1].outcome = "load raises"
    /\ rt_log[2].outcome = "loaded"
    /\ rt_result.html.length > MinRetryLength

(***************************************************************************)
(* C24: consent cookie before the first navigation of a session            *)
(***************************************************************************)

\* the navigations of the report session: the entries whose get_html was called
ReportNavigations == {i \in DOMAIN report_loads : report_loads[i].outcome # "new_page raises"}

\* C24: every navigation of the listing session and of the report session
\* was made by a context that held the consent cookie, and an open report
\* context holds the cookie from its opening on
C24_CookieBeforeNavigation ==
    /\ \A i \in DOMAIN loaded : ConsentCookie \in loaded[i].cookies
    /\ \A i \in ReportNavigations : ConsentCookie \in report_loads[i].cookies
    /\ rcontext = "open" => ConsentCookie \in rcookies

\* C24 witness: the listing session navigated and the report session
\* navigated twice, the first load raising and the second succeeding
C24_Witness ==
    /\ Len(loaded) >= 2
    /\ Len(report_loads) >= 2
    /\ report_loads[1].outcome = "load raises"
    /\ report_loads[2].outcome = "loaded"
    /\ ConsentCookie \in report_loads[1].cookies

(***************************************************************************)
(* C25: a delay between consecutive requests                               *)
(***************************************************************************)

\* no two requests of the trace are adjacent
DelayBetween(trace, request) ==
    \A i \in 1..(Len(trace) - 1) : ~(trace[i] = request /\ trace[i + 1] = request)

\* C25: between two consecutive listing or report page loads and between
\* two consecutive document downloads there is a sleep
C25_DelayBetweenRequests ==
    /\ DelayBetween(strace, "load")
    /\ DelayBetween(strace, "report")
    /\ DelayBetween(ctrace, "download")

(***************************************************************************)
(* C26: one record per entry whose load succeeds                           *)
(***************************************************************************)

\* the positions of the log of the report loop whose load succeeded
LoadedPositions == {i \in DOMAIN report_loads : report_loads[i].outcome = "loaded"}

\* the number of loads that succeeded among the first i of the log
LoadedUpTo(i) == Cardinality({j \in LoadedPositions : j <= i})

GoingOnLoads ==
    {n \in DOMAIN loaded :
        /\ ~loaded[n].raised
        /\ loaded[n].html.marker
        /\ loaded[n].html.length >= MinListingLength
        /\ extract_report_links(loaded[n].html) # <<>>}

\* C27: the loop is left only by a load that raised or that returned a page
\* without the marker, below the minimum length or without entries; while
\* every page loaded so far had the marker, the length and an entry, the
\* loop is still running, whatever the page index, and the page index is
\* one more than the number of pages loaded
C27_NoPageBound ==
    /\ lpc \in {"raised", "listed", "entries"} =>
          /\ loaded # <<>>
          /\ Len(loaded) \notin GoingOnLoads
          /\ lpc = "raised" <=> loaded[Len(loaded)].raised
    /\ \A n \in DOMAIN loaded : n < Len(loaded) => n \in GoingOnLoads
    /\ GoingOnLoads = DOMAIN loaded =>
          /\ lpc \in {"start", "listing"}
          /\ lpc = "listing" => current_page = Len(loaded) + 1

\* C27 witness: three pages were loaded, each with the marker, the length
\* and an entry, and the loop is about to load the fourth
C27_Witness ==
    /\ lpc = "listing"
    /\ Len(loaded) = 3
    /\ GoingOnLoads = DOMAIN loaded
    /\ current_page = 4

(***************************************************************************)
(* C28: the destination of a download lies under the base directory        *)
(***************************************************************************)

\* a path segment that names an entry of the directory it is joined to
SafeSegment(seg) ==
    /\ seg # <<>>
    /\ \A i \in DOMAIN seg : seg[i] # "/"
    /\ seg # <<".">>
    /\ seg # <<".", ".">>

\* C28: the section, the subfolder and the file name download_pdf computes
\* are each non-empty, without "/", and neither "." nor ".."
C28_DestinationUnderBase ==
    dl_path.done =>
        /\ SafeSegment(dl_path.section)
        /\ SafeSegment(dl_path.subfolder)
        /\ SafeSegment(dl_path.pdf_filename)

====
